---- MODULE Spec2Model ----
(***************************************************************************)
(* Topic / message ingestion and notification dispatch                     *)
(* (src/src/message/router.rs over the store of src/src/db.rs).            *)
(*                                                                         *)
(* create_message_handler advances from one await point to the next and    *)
(* interleaves with the other requests and with the detached send tasks.   *)
(* create_topic_handler and get_messages_handler touch the store once, in  *)
(* their last await, and are one step each, taken at that moment.          *)
(***************************************************************************)
EXTENDS Integers, Sequences, FiniteSets, TLC

\* ------------------------------------------------------------ bounds
\* Requests a run receives, of the three kinds together.
MaxReqs == 3

TopicReqs == 1..MaxReqs     \* POST /topics
IngestReqs == 1..MaxReqs    \* POST /topics/:topic_id/messages
ListReqs == 1..MaxReqs      \* GET  /topics/:topic_id/messages

\* ------------------------------------------------------------ inputs
Names == {"n1"}
ApiKeys == {"k1"}
ChatIds == {"c1"}
Texts == {"hello"}
ContactValues == {{<<"email", "a@b">>}}
\* Bearer tokens a client may present, and the values CONTACT_TOKEN may hold.
BearerTokens == {"s3cret", "guess"}
EnvValues == {"s3cret"}
\* Option<T>: the empty set is None, {v} is Some(v).
None == {}
Some(v) == {v}
Unwrap(o) == CHOOSE v \in o : TRUE

\* What the transport gives back for one outbound HTTP call: a network-level
\* error, or a response with a status code.
HttpOutcomes ==
    {[err |-> TRUE, status |-> 0]}
        \cup {[err |-> FALSE, status |-> s] : s \in {200, 401}}

\* reqwest's StatusCode::is_success
is_success(status) == status >= 200 /\ status < 300

\* ------------------------------------------------------------ TgApi
TgApiValues == [api_key : ApiKeys, chat_id : ChatIds]

\* serde_json::to_value of a TgApi: a JSON object, as its set of (key, value).
to_value(t) == {<<"api_key", t.api_key>>, <<"chat_id", t.chat_id>>}

HasKey(v, k) == \E p \in v : p[1] = k
Field(v, k) == (CHOOSE p \in v : p[1] = k)[2]

\* TryFrom<Value> for TgApi: Some(TgApi) when both fields are there, None (Err) else.
try_from(v) ==
    IF HasKey(v, "api_key") /\ HasKey(v, "chat_id")
    THEN Some([api_key |-> Field(v, "api_key"), chat_id |-> Field(v, "chat_id")])
    ELSE None

\* Variant: the network error is swallowed (unwrap_or(false)).
check_unwrap_or_false(http) ==
    IF http.err THEN "false"
    ELSE IF is_success(http.status) THEN "true" ELSE "false"

\* TgApi::check over the outcome of GET .../getMe: Ok(true), Ok(false) or Err.
check(http) ==
    IF http.err THEN "err"
    ELSE IF is_success(http.status) THEN "true" ELSE "false"

\* ------------------------------------------------------------ state
VARIABLES
    env,        \* CONTACT_TOKEN in the process environment: None or Some(token)
    topics,     \* table topic: sequence of rows, a row's id is its index
    messages,   \* table message: sequence of rows, a row's id is its index
    clock,      \* the store's clock, read at insert for created_at
    treq,       \* create_topic_handler invocations
    mreq,       \* create_message_handler invocations
    lreq,       \* get_messages_handler invocations
    tasks,      \* detached send tasks, in spawn order
    checks      \* GET .../getMe requests issued so far (TgApi::check)

vars == <<env, topics, messages, clock, treq, mreq, lreq, tasks, checks>>

IdleTopicReq ==
    [pc |-> "idle", name |-> "", tg_api |-> None, http |-> None,
     check |-> "none", insert |-> "none", status |-> 0, id |-> 0]

IdleIngestReq ==
    [pc |-> "idle", topic_id |-> 0, text |-> "", contacts |-> {},
     lookup |-> "none", insert |-> "none", topic |-> None, message |-> None,
     status |-> 0, seq |-> 0]

IdleListReq ==
    [pc |-> "idle", topic_id |-> 0, bearer |-> None, status |-> 0,
     body |-> <<>>, after |-> {}]

Init ==
    /\ env \in {None} \cup {Some(t) : t \in EnvValues}
    /\ topics = <<>>
    /\ messages = <<>>
    /\ clock = 0
    /\ treq = [c \in TopicReqs |-> IdleTopicReq]
    /\ mreq = [r \in IngestReqs |-> IdleIngestReq]
    /\ lreq = [l \in ListReqs |-> IdleListReq]
    /\ tasks = <<>>
    /\ checks = 0

Range(s) == {s[i] : i \in DOMAIN s}

\* The requests received so far.
Received ==
    Cardinality({c \in TopicReqs : treq[c].pc # "idle"})
        + Cardinality({r \in IngestReqs : mreq[r].pc # "idle"})
        + Cardinality({l \in ListReqs : lreq[l].pc # "idle"})

\* The slot the next request of one kind takes: requests of a kind are
\* interchangeable and numbered in the order in which they arrive, and a run
\* receives MaxReqs requests at most.
NextSlot(reqs) ==
    IF Received < MaxReqs
    THEN {i \in DOMAIN reqs :
            reqs[i].pc = "idle" /\ \A j \in 1..(i - 1) : reqs[j].pc # "idle"}
    ELSE {}

\* Topic identifiers a client puts in the path: those of the stored topics and
\* the next one the store will hand out, unknown when the request arrives.
TopicIds == 1..(Len(topics) + 1)

\* The time the store may give the next row: the clock has or has not
\* advanced since the last insert (only the order of the times is read).
Now == IF messages = <<>> THEN {clock} ELSE {clock, clock + 1}

\* ------------------------------------------------------------ db.rs
\* INSERT INTO topic (name, tg_api) ... RETURNING *
create_topic(name, tg_api) ==
    [id |-> Len(topics) + 1, name |-> name, tg_api |-> tg_api]

\* SELECT * FROM topic WHERE id = $1, fetch_optional
get_topic(topic_id) ==
    IF topic_id \in DOMAIN topics THEN Some(topics[topic_id]) ELSE None

\* INSERT INTO message (contacts, text, topic_id) ... RETURNING *
create_message(contacts, text, topic_id, now) ==
    [id |-> Len(messages) + 1, created_at |-> now, contacts |-> contacts,
     text |-> text, topic_id |-> topic_id]

\* Variant: ORDER BY created_at ASC.
IsSortedAsc(s) ==
    \A i, j \in DOMAIN s : i < j => s[i].created_at <= s[j].created_at

IsSortedDesc(s) ==
    \A i, j \in DOMAIN s : i < j => s[i].created_at >= s[j].created_at

\* SELECT * FROM message WHERE topic_id = $1 ORDER BY created_at DESC:
\* every order of the topic's rows the ORDER BY allows (rows of equal
\* created_at come in either order).
get_messages(topic_id) ==
    LET rows == {m \in Range(messages) : m.topic_id = topic_id}
        n == Cardinality(rows)
    IN  {s \in [1..n -> rows] : Range(s) = rows /\ IsSortedDesc(s)}

\* ------------------------------------------------------------ create_topic_handler
\* Variant: Ok(false) is taken for a pass (the guard `if v` is dropped).
ValidateAcceptsFalse(cfg, res) ==
    IF cfg = None THEN [go |-> "insert", value |-> None]
    ELSE IF res # "err"
         THEN [go |-> "insert", value |-> Some(to_value(Unwrap(cfg)))]
         ELSE [go |-> "reject", value |-> None]

\* Variant: a failed check (Err) is taken for a pass.
ValidateAcceptsErr(cfg, res) ==
    IF cfg = None THEN [go |-> "insert", value |-> None]
    ELSE IF res # "false"
         THEN [go |-> "insert", value |-> Some(to_value(Unwrap(cfg)))]
         ELSE [go |-> "reject", value |-> None]

\* Variant: an absent tg_api is serialized too, and stored as a JSON null.
ValidateStoresNull(cfg, res) ==
    IF cfg = None THEN [go |-> "insert", value |-> Some({})]
    ELSE IF res = "true"
         THEN [go |-> "insert", value |-> Some(to_value(Unwrap(cfg)))]
         ELSE [go |-> "reject", value |-> None]

\* What the handler does with payload.tg_api and the result of tg_api.check():
\* "insert" with the Option<Value> to store, or "reject" (400 BAD_REQUEST).
\* Only Ok(true) passes.
Validate(cfg, res) ==
    IF cfg = None THEN [go |-> "insert", value |-> None]
    ELSE IF res = "true"
         THEN [go |-> "insert", value |-> Some(to_value(Unwrap(cfg)))]
         ELSE [go |-> "reject", value |-> None]

\* One POST /topics request. With a tg_api in the payload the provider answers
\* the check with http; ok tells whether the store's insert succeeds. The
\* check is called only for Some(tg_api), the insert only after a pass.
create_topic_handler(c, name, cfg, http, ok) ==
    /\ treq[c].pc = "idle"
    /\ LET res == IF cfg = None THEN "none" ELSE check(http)
           v == Validate(cfg, res)
           topic == create_topic(name, v.value)
           req == [treq[c] EXCEPT !.pc = "done", !.name = name, !.tg_api = cfg,
                                  !.http = IF cfg = None THEN None ELSE Some(http),
                                  !.check = res]
       IN  IF v.go = "reject"
           THEN /\ treq' = [treq EXCEPT ![c] = [req EXCEPT !.status = 400]]
                /\ topics' = topics
           ELSE IF ok
           THEN /\ treq' = [treq EXCEPT ![c] = [req EXCEPT !.insert = "ok",
                                                          !.id = topic.id,
                                                          !.status = 200]]
                /\ topics' = Append(topics, topic)
           ELSE /\ treq' = [treq EXCEPT ![c] = [req EXCEPT !.insert = "err",
                                                          !.status = 500]]
                /\ topics' = topics
    /\ checks' = IF cfg = None THEN checks ELSE checks + 1
    /\ UNCHANGED <<env, messages, clock, mreq, lreq, tasks>>

\* ------------------------------------------------------------ create_message_handler
\* Variant: Ok(None) is not told from Ok(Some(topic)).
LookupStatusIgnoresAbsent(res) == IF res = "err" THEN 404 ELSE 0

\* The status of a request whose get_topic answered res: Err and Ok(None)
\* both give 404 NOT_FOUND, Ok(Some(topic)) lets the handler go on (0).
LookupStatus(res) == IF res = "found" THEN 0 ELSE 404

\* A request arrives for the topic_id of its path, and get_topic(...).await
\* answers: ok tells whether the store's query succeeds.
GetTopic(r, topic_id, contacts, text, ok) ==
    /\ mreq[r].pc = "idle"
    /\ LET found == get_topic(topic_id)
           res == IF ~ok THEN "err" ELSE IF found = None THEN "absent" ELSE "found"
           req == [mreq[r] EXCEPT !.topic_id = topic_id, !.contacts = contacts,
                                  !.text = text, !.lookup = res]
       IN  IF LookupStatus(res) = 0
           THEN mreq' = [mreq EXCEPT ![r] =
                            [req EXCEPT !.pc = "create_message",
                                        !.topic = IF ok THEN found ELSE None]]
           ELSE mreq' = [mreq EXCEPT ![r] =
                            [req EXCEPT !.pc = "done", !.status = LookupStatus(res)]]
    /\ UNCHANGED <<env, checks, topics, messages, clock, treq, lreq, tasks>>

\* log_and_raise: the error is logged and becomes 500.
log_and_raise == 500

\* Variant: the insert is not awaited; the handler goes on with the row it
\* expects while the store has not written it.
CreateMessageNotAwaited(r, ok, now) ==
    /\ mreq[r].pc = "create_message"
    /\ IF ok
       THEN LET message == create_message(mreq[r].contacts, mreq[r].text,
                                          mreq[r].topic_id, now)
            IN  /\ UNCHANGED <<messages, clock>>
                /\ mreq' = [mreq EXCEPT ![r].insert = "ok",
                                        ![r].message = Some(message),
                                        ![r].pc = "notify"]
       ELSE /\ UNCHANGED <<messages, clock>>
            /\ mreq' = [mreq EXCEPT ![r].insert = "err",
                                    ![r].status = log_and_raise, ![r].pc = "done"]
    /\ UNCHANGED <<env, checks, topics, treq, lreq, tasks>>

\* Variant: the INSERT is issued a second time (a retry) and stores a second row.
CreateMessageTwice(r, ok, now) ==
    /\ mreq[r].pc = "create_message"
    /\ IF ok
       THEN LET message == create_message(mreq[r].contacts, mreq[r].text,
                                          mreq[r].topic_id, now)
                again == [message EXCEPT !.id = message.id + 1]
            IN  /\ messages' = messages \o <<message, again>>
                /\ clock' = now
                /\ mreq' = [mreq EXCEPT ![r].insert = "ok",
                                        ![r].message = Some(again),
                                        ![r].pc = "notify"]
       ELSE /\ UNCHANGED <<messages, clock>>
            /\ mreq' = [mreq EXCEPT ![r].insert = "err",
                                    ![r].status = log_and_raise, ![r].pc = "done"]
    /\ UNCHANGED <<env, checks, topics, treq, lreq, tasks>>

\* Variant: the error of the insert is logged and the handler goes on to the
\* notification with the row it meant to store.
CreateMessageIgnoresError(r, ok, now) ==
    /\ mreq[r].pc = "create_message"
    /\ LET message == create_message(mreq[r].contacts, mreq[r].text,
                                     mreq[r].topic_id, now)
       IN  IF ok
           THEN /\ messages' = Append(messages, message)
                /\ clock' = now
                /\ mreq' = [mreq EXCEPT ![r].insert = "ok",
                                        ![r].message = Some(message),
                                        ![r].pc = "notify"]
           ELSE /\ UNCHANGED <<messages, clock>>
                /\ mreq' = [mreq EXCEPT ![r].insert = "err",
                                        ![r].message = Some(message),
                                        ![r].pc = "notify"]
    /\ UNCHANGED <<env, checks, topics, treq, lreq, tasks>>

\* create_message(...).await answers: the row is stored with the store's
\* current time (which has or has not advanced since the last insert), or
\* the store fails and the request ends with log_and_raise's status.
CreateMessage(r, ok, now) ==
    /\ mreq[r].pc = "create_message"
    /\ IF ok
       THEN LET message == create_message(mreq[r].contacts, mreq[r].text,
                                          mreq[r].topic_id, now)
            IN  /\ messages' = Append(messages, message)
                /\ clock' = now
                /\ mreq' = [mreq EXCEPT ![r].insert = "ok",
                                        ![r].message = Some(message),
                                        ![r].pc = "notify"]
       ELSE /\ UNCHANGED <<messages, clock>>
            /\ mreq' = [mreq EXCEPT ![r].insert = "err",
                                    ![r].status = log_and_raise, ![r].pc = "done"]
    /\ UNCHANGED <<env, checks, topics, treq, lreq, tasks>>

\* TgApi::send up to and including tokio::spawn: the detached task, which
\* issues its one POST .../sendMessage and waits for the answer.
send(tg_api, topic_name, message) ==
    [message_id |-> message.id,
     api_key |-> tg_api.api_key,
     chat_id |-> tg_api.chat_id,
     text |-> <<"Topic: ", topic_name, "\nText: ", message.text,
                "\nContacts: ", message.contacts>>,
     state |-> "Sending"]

\* Variant: the handler and send both spawn the task.
NotifyTwice(r) ==
    /\ mreq[r].pc = "notify"
    /\ LET topic == Unwrap(mreq[r].topic)
           message == Unwrap(mreq[r].message)
           parsed == IF topic.tg_api = None THEN None
                     ELSE try_from(Unwrap(topic.tg_api))
       IN  tasks' = IF parsed = None THEN tasks
                    ELSE tasks \o << send(Unwrap(parsed), topic.name, message),
                                     send(Unwrap(parsed), topic.name, message) >>
    /\ mreq' = [mreq EXCEPT ![r].pc = "respond"]
    /\ UNCHANGED <<env, checks, topics, messages, clock, treq, lreq>>

\* Variant: a config that does not parse ends the request with an error.
NotifyFailsOnMalformed(r) ==
    /\ mreq[r].pc = "notify"
    /\ LET topic == Unwrap(mreq[r].topic)
           message == Unwrap(mreq[r].message)
           parsed == IF topic.tg_api = None THEN None
                     ELSE try_from(Unwrap(topic.tg_api))
       IN  /\ tasks' = IF parsed = None THEN tasks
                       ELSE Append(tasks, send(Unwrap(parsed), topic.name, message))
           /\ mreq' = IF topic.tg_api # None /\ parsed = None
                      THEN [mreq EXCEPT ![r].pc = "done", ![r].status = 500]
                      ELSE [mreq EXCEPT ![r].pc = "respond"]
    /\ UNCHANGED <<env, checks, topics, messages, clock, treq, lreq>>

\* Variant: a topic without tg_api is notified through a default TgApi.
NotifyWithDefault(r) ==
    /\ mreq[r].pc = "notify"
    /\ LET topic == Unwrap(mreq[r].topic)
           message == Unwrap(mreq[r].message)
           parsed == IF topic.tg_api = None
                     THEN Some([api_key |-> "k1", chat_id |-> "c1"])
                     ELSE try_from(Unwrap(topic.tg_api))
       IN  tasks' = IF parsed = None THEN tasks
                    ELSE Append(tasks, send(Unwrap(parsed), topic.name, message))
    /\ mreq' = [mreq EXCEPT ![r].pc = "respond"]
    /\ UNCHANGED <<env, checks, topics, messages, clock, treq, lreq>>

\* Variant: the handler checks the credential again before it sends.
NotifyRechecks(r) ==
    /\ mreq[r].pc = "notify"
    /\ LET topic == Unwrap(mreq[r].topic)
           message == Unwrap(mreq[r].message)
           parsed == IF topic.tg_api = None THEN None
                     ELSE try_from(Unwrap(topic.tg_api))
       IN  /\ tasks' = IF parsed = None THEN tasks
                       ELSE Append(tasks, send(Unwrap(parsed), topic.name, message))
           /\ checks' = IF parsed = None THEN checks ELSE checks + 1
    /\ mreq' = [mreq EXCEPT ![r].pc = "respond"]
    /\ UNCHANGED <<env, topics, messages, clock, treq, lreq>>

\* The handler resumes after the insert: a topic without tg_api, or one whose
\* tg_api does not parse (warn!), spawns nothing; otherwise tg_api.send spawns
\* the task and returns at once. The handler then returns Ok(CREATED).
Notify(r) ==
    /\ mreq[r].pc = "notify"
    /\ LET topic == Unwrap(mreq[r].topic)
           message == Unwrap(mreq[r].message)
           parsed == IF topic.tg_api = None THEN None
                     ELSE try_from(Unwrap(topic.tg_api))
       IN  tasks' = IF parsed = None THEN tasks
                    ELSE Append(tasks, send(Unwrap(parsed), topic.name, message))
    /\ mreq' = [mreq EXCEPT ![r].pc = "respond"]
    /\ UNCHANGED <<env, checks, topics, messages, clock, treq, lreq>>

\* The send tasks spawned for the message of request r.
TasksOf(r) ==
    {i \in DOMAIN tasks : mreq[r].message # None
                          /\ tasks[i].message_id = Unwrap(mreq[r].message).id}

\* The ingestion requests that have returned 201 so far.
Completed == Cardinality({q \in IngestReqs : mreq[q].status = 201})

\* Variant: the handler awaits the spawned task before it returns.
RespondAfterSend(r) ==
    /\ mreq[r].pc = "respond"
    /\ \A i \in TasksOf(r) : tasks[i].state # "Sending"
    /\ mreq' = [mreq EXCEPT ![r].status = 201, ![r].pc = "done",
                            ![r].seq = Completed + 1]
    /\ UNCHANGED <<env, checks, topics, messages, clock, treq, lreq, tasks>>

\* Variant: the handler awaits the spawned task and reports its failure.
RespondReportsSendFailure(r) ==
    /\ mreq[r].pc = "respond"
    /\ \A i \in TasksOf(r) : tasks[i].state # "Sending"
    /\ mreq' = [mreq EXCEPT ![r].status =
                                IF \A i \in TasksOf(r) : tasks[i].state = "Delivered"
                                THEN 201 ELSE 500,
                            ![r].pc = "done"]
    /\ UNCHANGED <<env, checks, topics, messages, clock, treq, lreq, tasks>>

\* Variant: the task is tied to the request and aborted when the handler
\* returns while it is still waiting for the answer.
RespondCancelsSend(r) ==
    /\ mreq[r].pc = "respond"
    /\ mreq' = [mreq EXCEPT ![r].status = 201, ![r].pc = "done",
                            ![r].seq = Completed + 1]
    /\ tasks' = [i \in DOMAIN tasks |->
                    IF i \in TasksOf(r) /\ tasks[i].state = "Sending"
                    THEN [tasks[i] EXCEPT !.state = "Aborted"]
                    ELSE tasks[i]]
    /\ UNCHANGED <<env, checks, topics, messages, clock, treq, lreq>>

\* The caller receives the 201 the handler returned; seq is the place of the
\* request in the order in which the ingestion requests complete.
Respond(r) ==
    /\ mreq[r].pc = "respond"
    /\ mreq' = [mreq EXCEPT ![r].status = 201, ![r].pc = "done",
                            ![r].seq = Completed + 1]
    /\ UNCHANGED <<env, checks, topics, messages, clock, treq, lreq, tasks>>

\* ------------------------------------------------------------ the detached send task
\* What the task logs for the answer to its POST: a transport error, a 2xx,
\* or another status whose body can or cannot be read.
Outcome(http, readable) ==
    IF http.err THEN "TransportFailed"
    ELSE IF is_success(http.status) THEN "Delivered"
    ELSE IF readable THEN "Rejected" ELSE "ResponseUnreadable"

\* Variant: after a transport failure the task tries again.
SendResolveRetries(i, http, readable) ==
    /\ tasks[i].state = "Sending"
    /\ tasks' = IF http.err
                THEN Append([tasks EXCEPT ![i].state = "TransportFailed"], tasks[i])
                ELSE [tasks EXCEPT ![i].state = Outcome(http, readable)]
    /\ UNCHANGED <<env, checks, topics, messages, clock, treq, mreq, lreq>>

\* The POST of task i is answered; the task logs the outcome and ends.
SendResolve(i, http, readable) ==
    /\ tasks[i].state = "Sending"
    /\ tasks' = [tasks EXCEPT ![i].state = Outcome(http, readable)]
    /\ UNCHANGED <<env, checks, topics, messages, clock, treq, mreq, lreq>>

\* ------------------------------------------------------------ get_messages_handler
\* The status before the store is asked. The TypedHeader extractor rejects a
\* request without a bearer Authorization header (400) before the handler
\* runs; the handler reads CONTACT_TOKEN (unset: 500) and compares the bearer
\* token with it (different: 401). 0: the handler goes on to get_messages.
AuthStatus(hdr) ==
    IF hdr = None THEN 400
    ELSE IF env = None THEN 500
    ELSE IF Unwrap(hdr) # Unwrap(env) THEN 401
    ELSE 0

\* One GET /topics/:topic_id/messages request, at the moment the store
\* answers get_messages(...).await: ok tells whether the query succeeds (200
\* with the rows) or fails (404). after: the ingestion requests that had
\* returned 201 by then.
get_messages_handler(l, topic_id, hdr, ok) ==
    /\ lreq[l].pc = "idle"
    /\ LET req == [lreq[l] EXCEPT !.pc = "done", !.topic_id = topic_id,
                                  !.bearer = hdr,
                                  !.after = {r \in IngestReqs : mreq[r].status = 201}]
       IN  IF AuthStatus(hdr) # 0
           THEN lreq' = [lreq EXCEPT ![l] = [req EXCEPT !.status = AuthStatus(hdr)]]
           ELSE IF ok
           THEN \E rows \in get_messages(topic_id) :
                    lreq' = [lreq EXCEPT ![l] = [req EXCEPT !.status = 200,
                                                            !.body = rows]]
           ELSE lreq' = [lreq EXCEPT ![l] = [req EXCEPT !.status = 404]]
    /\ UNCHANGED <<env, checks, topics, messages, clock, treq, mreq, tasks>>

\* ------------------------------------------------------------ specification
\* A POST /topics request is served.
TopicRequest ==
    \E c \in NextSlot(treq), name \in Names,
       cfg \in {None} \cup {Some(t) : t \in TgApiValues},
       http \in HttpOutcomes, ok \in BOOLEAN :
        create_topic_handler(c, name, cfg, http, ok)

\* A POST /topics/:topic_id/messages request arrives and looks its topic up.
IngestRequest ==
    \E r \in NextSlot(mreq), topic_id \in TopicIds, contacts \in ContactValues,
       text \in Texts, ok \in BOOLEAN :
        GetTopic(r, topic_id, contacts, text, ok)

\* The store answers the insert of an ingestion request.
MessageInsert ==
    \E r \in IngestReqs, ok \in BOOLEAN, now \in Now : CreateMessage(r, ok, now)

\* The provider, or the transport, answers the POST of a send task.
SendAnswer ==
    \E i \in DOMAIN tasks, http \in HttpOutcomes, readable \in BOOLEAN :
        SendResolve(i, http, readable)

\* A GET /topics/:topic_id/messages request is served.
ListRequest ==
    \E l \in NextSlot(lreq), topic_id \in TopicIds,
       hdr \in {None} \cup {Some(t) : t \in BearerTokens}, ok \in BOOLEAN :
        get_messages_handler(l, topic_id, hdr, ok)

Next ==
    \/ TopicRequest
    \/ IngestRequest
    \/ MessageInsert
    \/ \E r \in IngestReqs : Notify(r)
    \/ \E r \in IngestReqs : Respond(r)
    \/ SendAnswer
    \/ ListRequest

Spec == Init /\ [][Next]_vars

\* The store outlives the process. Configs of the topic row the process may
\* find at start: none, or a JSON value written by another writer of the
\* table that TgApi's TryFrom refuses (chat_id is missing).
StoredConfigs == {None, Some({<<"api_key", "k1">>})}

\* The process starts over a store that holds one topic already.
InitStored ==
    /\ env \in {None} \cup {Some(t) : t \in EnvValues}
    /\ topics \in {<<[id |-> 1, name |-> "n0", tg_api |-> cfg]>> :
                        cfg \in StoredConfigs}
    /\ messages = <<>>
    /\ clock = 0
    /\ treq = [c \in TopicReqs |-> IdleTopicReq]
    /\ mreq = [r \in IngestReqs |-> IdleIngestReq]
    /\ lreq = [l \in ListReqs |-> IdleListReq]
    /\ tasks = <<>>
    /\ checks = 0

SpecStored == InitStored /\ [][Next]_vars

\* The runtime schedules every spawned task, and the transport answers or
\* fails every request it was given: a send task that waits for the answer
\* to its POST gets it.
SpecFair == Spec /\ WF_vars(SendAnswer)

\* ------------------------------------------------------------ properties
Done(r) == mreq[r].pc = "done"
Message(r) == Unwrap(mreq[r].message)
Topic(r) == Unwrap(mreq[r].topic)
Terminal == {"Delivered", "TransportFailed", "Rejected", "ResponseUnreadable"}

\* The stored config of a topic is there and parses into a TgApi.
Decodable(topic) ==
    topic.tg_api # None /\ try_from(Unwrap(topic.tg_api)) # None

\* C1: once an ingestion request has returned 201, its message is a row of the
\* store, every result get_messages can give for its topic holds it, and every
\* listing of that topic whose query was answered after the 201 and returned
\* rows holds it, with or without a notification config on the topic.
C1_PersistedBeforeSuccess ==
    /\ \A r \in IngestReqs : mreq[r].status = 201 =>
          /\ mreq[r].message # None
          /\ Message(r) \in Range(messages)
          /\ \A rows \in get_messages(mreq[r].topic_id) : Message(r) \in Range(rows)
    /\ \A l \in ListReqs : lreq[l].status = 200 =>
          \A r \in lreq[l].after :
              mreq[r].topic_id = lreq[l].topic_id => Message(r) \in Range(lreq[l].body)

\* A listing answered after a 201 on a topic with a config has returned rows.
C1_Witness ==
    \E l \in ListReqs, r \in IngestReqs :
        /\ lreq[l].status = 200
        /\ r \in lreq[l].after
        /\ mreq[r].topic_id = lreq[l].topic_id
        /\ Topic(r).tg_api # None

\* The number of send tasks spawned for message id m.
Attempts(m) == Cardinality({i \in DOMAIN tasks : tasks[i].message_id = m})

\* C2: no message ever has more than one send task, and a message stored for a
\* topic with a decodable config has exactly one from the moment the handler
\* has returned, however the ingestion requests interleave.
C2_ExactlyOneAttempt ==
    /\ \A m \in DOMAIN messages : Attempts(m) <= 1
    /\ \A r \in IngestReqs :
          (mreq[r].pc \in {"respond", "done"} /\ mreq[r].insert = "ok"
              /\ Decodable(Topic(r)))
          => Attempts(Message(r).id) = 1

\* Two ingestion requests on a topic with a config have both returned 201, the
\* second message stored first being notified first or second.
C2_Witness ==
    \E r1, r2 \in IngestReqs :
        /\ r1 # r2
        /\ mreq[r1].status = 201 /\ mreq[r2].status = 201
        /\ Decodable(Topic(r1)) /\ Decodable(Topic(r2))
        /\ Attempts(Message(r1).id) = 1 /\ Attempts(Message(r2).id) = 1
        /\ Len(tasks) = 2
        /\ tasks[1].message_id > tasks[2].message_id

\* C3 as stated: whenever the send attempt of a message has resolved, the
\* ingestion response for that message has already been observed.
C3_ResponseNeverAfterResolution ==
    \A r \in IngestReqs : \A i \in TasksOf(r) :
        tasks[i].state \in Terminal => mreq[r].status = 201

\* C3 amended: the handler never waits for the send: once it has handed off,
\* its response can be returned whatever the state of the send task, and a
\* request whose insert succeeded ends with 201.
C3_ResponseNeverWaits ==
    \A r \in IngestReqs :
        /\ mreq[r].pc = "respond" => ENABLED Respond(r)
        /\ (Done(r) /\ mreq[r].insert = "ok") => mreq[r].status = 201

\* The 201 has been observed while the send task of the message is in flight.
C3_Witness ==
    \E r \in IngestReqs :
        /\ mreq[r].status = 201
        /\ \E i \in TasksOf(r) : tasks[i].state = "Sending"

\* C4: the ingestion response is decided by the store's answers alone: two
\* requests that got the same answers from the store get the same response
\* whatever became of their send tasks, and every message whose insert
\* succeeded stays stored, once.
C4_NotificationIsolated ==
    /\ \A r1, r2 \in IngestReqs :
          (Done(r1) /\ Done(r2) /\ mreq[r1].lookup = mreq[r2].lookup
              /\ mreq[r1].insert = mreq[r2].insert)
          => mreq[r1].status = mreq[r2].status
    /\ \A r \in IngestReqs : mreq[r].insert = "ok" => Message(r) \in Range(messages)
    /\ Len(messages) = Cardinality({r \in IngestReqs : mreq[r].insert = "ok"})

\* Two finished requests with the same store answers: one send was delivered,
\* the other failed or is still without an answer.
C4_Witness ==
    \E r1, r2 \in IngestReqs :
        /\ Done(r1) /\ Done(r2)
        /\ mreq[r1].insert = "ok" /\ mreq[r2].insert = "ok"
        /\ \E i \in TasksOf(r1) : tasks[i].state = "Delivered"
        /\ \E i \in TasksOf(r2) :
              tasks[i].state \in {"TransportFailed", "Rejected", "Sending"}

\* C5: a creation request whose check answered false or failed ends at once
\* with 400, never reaches the insert, and no topic row is its own; the topic
\* table holds exactly the rows of the requests whose insert succeeded.
C5_RejectedConfigCreatesNothing ==
    /\ \A c \in TopicReqs : treq[c].check \in {"false", "err"} =>
          /\ treq[c].pc = "done"
          /\ treq[c].status = 400
          /\ treq[c].insert = "none"
          /\ treq[c].id = 0
    /\ Len(topics) = Cardinality({c \in TopicReqs : treq[c].insert = "ok"})

\* A request was rejected because the network call of the check failed.
C5_Witness ==
    \E c \in TopicReqs : treq[c].check = "err" /\ treq[c].status = 400

\* C6: every stored topic with a tg_api is the row of a creation request whose
\* check answered true, and holds that request's config, serialized.
C6_StoredConfigWasValidated ==
    \A t \in DOMAIN topics : topics[t].tg_api # None =>
        \E c \in TopicReqs :
            /\ treq[c].id = t
            /\ treq[c].check = "true"
            /\ treq[c].tg_api # None
            /\ topics[t].tg_api = Some(to_value(Unwrap(treq[c].tg_api)))

\* A topic with a config is stored.
C6_Witness ==
    \E t \in DOMAIN topics : topics[t].tg_api # None

\* C7 as stated: a finished creation request without config has succeeded.
C7_NoConfigAlwaysSucceeds ==
    \A c \in TopicReqs :
        (treq[c].pc = "done" /\ treq[c].tg_api = None) => treq[c].status = 200

\* C7 amended: a creation request without config is never checked, and it
\* ends either with its topic stored without tg_api (200) or, when the
\* store's insert fails, with 500 and no topic.
C7_NoConfigSucceedsUnlessStoreFails ==
    \A c \in TopicReqs : (treq[c].pc # "idle" /\ treq[c].tg_api = None) =>
        /\ treq[c].check = "none"
        /\ \/ /\ treq[c].insert = "ok"
              /\ treq[c].status = 200
              /\ treq[c].id \in DOMAIN topics
              /\ topics[treq[c].id].tg_api = None
              /\ topics[treq[c].id].name = treq[c].name
           \/ /\ treq[c].insert = "err"
              /\ treq[c].status = 500
              /\ treq[c].id = 0

\* A topic without config has been created.
C7_Witness ==
    \E c \in TopicReqs :
        /\ treq[c].tg_api = None
        /\ treq[c].status = 200
        /\ treq[c].id \in DOMAIN topics

\* C8: an ingestion request whose topic_id names no topic ends with 404, has
\* stored no message and spawned no send task; no message row carries a
\* topic_id that names no topic.
C8_UnknownTopicIsNotFound ==
    /\ \A r \in IngestReqs :
          (mreq[r].lookup = "absent"
              \/ (mreq[r].pc # "idle" /\ mreq[r].topic_id \notin DOMAIN topics))
          => /\ Done(r)
             /\ mreq[r].status = 404
             /\ mreq[r].insert = "none"
             /\ mreq[r].message = None
             /\ TasksOf(r) = {}
    /\ \A m \in Range(messages) : m.topic_id \in DOMAIN topics

\* A request for an unknown topic has ended while another one stored a message.
C8_Witness ==
    \E r \in IngestReqs :
        /\ mreq[r].lookup = "absent"
        /\ Done(r)
        /\ messages # <<>>

\* C9 as stated: a finished ingestion request that met a store failure, in the
\* lookup or in the insert, has 500, and 404 is the answer for an unknown
\* topic_id only.
C9_StorageFailureIsServerError ==
    \A r \in IngestReqs : Done(r) =>
        /\ (mreq[r].lookup = "err" \/ mreq[r].insert = "err") => mreq[r].status = 500
        /\ mreq[r].status = 404 => mreq[r].lookup = "absent"

\* C10 as stated: a listing request without bearer token, or with one that is
\* not the value of CONTACT_TOKEN, ends with 401 and no message.
C10_NoMatchingBearerIsUnauthorized ==
    \A l \in ListReqs :
        (lreq[l].pc # "idle" /\ (lreq[l].bearer = None \/ lreq[l].bearer # env))
        => lreq[l].status = 401 /\ lreq[l].body = <<>>

\* C11 as stated: in a listing that returned rows, of two messages of the
\* topic whose ingestion requests had completed before the listing, the one
\* whose request completed later comes first, however close or concurrent
\* the two requests were.
C11_ListedInReverseCompletionOrder ==
    \A l \in ListReqs : lreq[l].status = 200 =>
        \A r1, r2 \in lreq[l].after :
            (/\ mreq[r1].topic_id = lreq[l].topic_id
             /\ mreq[r2].topic_id = lreq[l].topic_id
             /\ mreq[r1].seq < mreq[r2].seq)
            => \E i, j \in DOMAIN lreq[l].body :
                  /\ i < j
                  /\ lreq[l].body[i] = Message(r2)
                  /\ lreq[l].body[j] = Message(r1)

\* C11 amended: a listing that returned rows holds rows of its topic, each
\* once, by non-increasing created_at; of two rows with different created_at
\* the one the store inserted later comes first. Nothing orders rows of equal
\* created_at, and nothing relates the order to that of the responses.
C11_ListedByDescendingCreatedAt ==
    \A l \in ListReqs : lreq[l].status = 200 =>
        LET body == lreq[l].body
        IN  /\ \A i \in DOMAIN body :
                  /\ body[i].topic_id = lreq[l].topic_id
                  /\ body[i] \in Range(messages)
            /\ \A i, j \in DOMAIN body : i < j =>
                  /\ body[i] # body[j]
                  /\ body[i].created_at >= body[j].created_at
                  /\ body[i].created_at # body[j].created_at
                        => body[i].id > body[j].id

\* A listing has returned two rows of different created_at.
C11_Witness ==
    \E l \in ListReqs :
        /\ lreq[l].status = 200
        /\ Len(lreq[l].body) = 2
        /\ lreq[l].body[1].created_at > lreq[l].body[2].created_at

\* The rows of the message table that belong to topic t.
RowsOf(t) == {i \in DOMAIN messages : messages[i].topic_id = t}

\* The ingestion requests for topic t whose insert succeeded.
Inserted(t) ==
    {r \in IngestReqs : mreq[r].insert = "ok" /\ mreq[r].topic_id = t}

\* C12: for every topic the stored messages are as many as the ingestion
\* requests for it whose insert succeeded; the message of each such request
\* is exactly one row, and no two requests share a row.
C12_StoredExactlyOnce ==
    /\ \A t \in TopicIds : Cardinality(RowsOf(t)) = Cardinality(Inserted(t))
    /\ \A t \in TopicIds : \A r \in Inserted(t) :
          Cardinality({i \in RowsOf(t) : messages[i] = Message(r)}) = 1
    /\ \A r1, r2 \in IngestReqs :
          (r1 # r2 /\ mreq[r1].insert = "ok" /\ mreq[r2].insert = "ok")
          => Message(r1) # Message(r2)

\* Two requests for one topic have stored their messages, and a third request
\* for it met a failing insert.
C12_Witness ==
    \E t \in DOMAIN topics :
        /\ Cardinality(Inserted(t)) = 2
        /\ Cardinality(RowsOf(t)) = 2
        /\ \E r \in IngestReqs : mreq[r].topic_id = t /\ mreq[r].insert = "err"

\* C13: every send task, whatever its state, is for a message that is a row
\* of the store and was spawned by a request whose insert had succeeded; a
\* request whose insert failed has ended with 500, holds no message and has
\* no send task.
C13_SendOnlyForPersisted ==
    /\ \A i \in DOMAIN tasks :
          /\ tasks[i].message_id \in DOMAIN messages
          /\ \E r \in IngestReqs :
                /\ mreq[r].insert = "ok"
                /\ i \in TasksOf(r)
                /\ Message(r) = messages[tasks[i].message_id]
    /\ \A r \in IngestReqs : mreq[r].insert = "err" =>
          /\ Done(r)
          /\ mreq[r].status = 500
          /\ mreq[r].message = None
          /\ TasksOf(r) = {}
          /\ Len(tasks) <= Cardinality({q \in IngestReqs : mreq[q].insert = "ok"})

\* On a topic with a usable config one request has stored its message and
\* spawned its send task, and another has met a failing insert.
C13_Witness ==
    \E r1, r2 \in IngestReqs :
        /\ TasksOf(r1) # {}
        /\ mreq[r2].insert = "err"
        /\ mreq[r2].topic # None
        /\ Decodable(Topic(r2))

\* The outcomes of the task for a non-2xx answer: rejected with the provider's
\* detail, or rejected with a body that could not be read.
RejectedOutcomes == {"Rejected", "ResponseUnreadable"}

\* C14: a message without task is NotAttempted. Every step keeps the tasks
\* there are; a new task starts in Sending and is the first for its message
\* (no retry); a task in Sending stays there or moves to exactly one of
\* Delivered, TransportFailed or a rejected outcome; a task in a terminal
\* outcome keeps it for ever.
C14_AttemptStateMachine ==
    [][/\ Len(tasks') >= Len(tasks)
       /\ \A i \in DOMAIN tasks :
             /\ tasks[i].state \in Terminal => tasks'[i] = tasks[i]
             /\ tasks[i].state \notin Terminal =>
                   /\ tasks[i].state = "Sending"
                   /\ tasks'[i].state \in
                         {"Sending", "Delivered", "TransportFailed"}
                             \cup RejectedOutcomes
                   /\ tasks'[i] = [tasks[i] EXCEPT !.state = tasks'[i].state]
       /\ \A i \in DOMAIN tasks' \ DOMAIN tasks :
             /\ tasks'[i].state = "Sending"
             /\ \A j \in DOMAIN tasks' :
                   tasks'[j].message_id = tasks'[i].message_id => j = i
      ]_vars

\* One attempt has ended in a transport failure and one in a rejection, each
\* the only task of its message.
C14_Witness ==
    \E i, j \in DOMAIN tasks :
        /\ tasks[i].state = "TransportFailed"
        /\ tasks[j].state \in RejectedOutcomes
        /\ \A m \in DOMAIN messages : Attempts(m) = 1

\* C15: a send task that waits for its answer can always be given it,
\* whatever the requests have done or are doing, and every send task that was
\* started reaches a terminal outcome.
C15_EveryTaskResolves ==
    /\ [](\A i \in DOMAIN tasks : tasks[i].state = "Sending" =>
             ENABLED (\E http \in HttpOutcomes, readable \in BOOLEAN :
                         SendResolve(i, http, readable)))
    /\ \A i \in 1..MaxReqs :
          (i \in DOMAIN tasks) ~> (i \in DOMAIN tasks /\ tasks[i].state \in Terminal)

\* A task has reached its outcome after its request had returned and a
\* listing had been served in between or afterwards.
C15_Witness ==
    \E r \in IngestReqs, l \in ListReqs :
        /\ mreq[r].status = 201
        /\ r \in lreq[l].after
        /\ TasksOf(r) # {}
        /\ \A i \in TasksOf(r) : tasks[i].state \in Terminal

\* The topic request r resolved has a stored config that does not parse.
Malformed(r) ==
    /\ mreq[r].topic # None
    /\ Topic(r).tg_api # None
    /\ ~Decodable(Topic(r))

\* C16: an ingestion request for a topic whose stored config does not parse
\* never has a send task; when its insert succeeds its message is a row of the
\* store and the request goes on to return 201; it ends with another status
\* only when the insert failed (500).
C16_MalformedConfigStillIngests ==
    \A r \in IngestReqs : Malformed(r) =>
        /\ TasksOf(r) = {}
        /\ mreq[r].insert = "ok" =>
              /\ Message(r) \in Range(messages)
              /\ mreq[r].pc \in {"notify", "respond", "done"}
              /\ Done(r) => mreq[r].status = 201
        /\ Done(r) => \/ mreq[r].insert = "ok" /\ mreq[r].status = 201
                      \/ mreq[r].insert = "err" /\ mreq[r].status = 500

\* A request for a topic with a config that does not parse has returned 201
\* with its message stored and no send task.
C16_Witness ==
    \E r \in IngestReqs :
        /\ Malformed(r)
        /\ mreq[r].status = 201
        /\ Message(r) \in Range(messages)
        /\ TasksOf(r) = {}

\* C17: no send task is for a message of a topic without tg_api, and no
\* ingestion request that resolved such a topic has a send task, at any point
\* of any run.
C17_AbsentConfigNeverNotifies ==
    /\ \A i \in DOMAIN tasks :
          /\ tasks[i].message_id \in DOMAIN messages
          /\ messages[tasks[i].message_id].topic_id \in DOMAIN topics
          /\ topics[messages[tasks[i].message_id].topic_id].tg_api # None
    /\ \A r \in IngestReqs :
          (mreq[r].topic # None /\ Topic(r).tg_api = None) => TasksOf(r) = {}

\* A message of a topic without tg_api has been ingested with 201 and has no
\* send task, while a message of another topic has one.
C17_Witness ==
    \E r \in IngestReqs :
        /\ mreq[r].status = 201
        /\ Topic(r).tg_api = None
        /\ TasksOf(r) = {}
        /\ tasks # <<>>

\* The topic-creation requests served so far that supplied a config.
WithConfig == {c \in TopicReqs : treq[c].pc = "done" /\ treq[c].tg_api # None}

\* C18: the getMe requests issued so far are as many as the topic-creation
\* requests that supplied a config, one each, so that no ingestion, listing or
\* send task has issued one; and whatever the provider has answered to earlier
\* sends, an ingestion request for a topic with a usable config stores its
\* message, spawns its one send task and returns 201.
C18_CheckedOnceAtCreationOnly ==
    /\ checks = Cardinality(WithConfig)
    /\ \A c \in TopicReqs : treq[c].check # "none" <=> c \in WithConfig
    /\ \A r \in IngestReqs :
          (mreq[r].insert = "ok" /\ Decodable(Topic(r))
              /\ mreq[r].pc \in {"respond", "done"})
          => /\ Cardinality(TasksOf(r)) = 1
             /\ Done(r) => mreq[r].status = 201

\* The provider has rejected the send for one message of a topic (the
\* credential has lapsed since the one check at creation), and a request that
\* stored a later message of that topic has returned 201 and has its send task.
C18_Witness ==
    \E r1, r2 \in IngestReqs :
        /\ checks = 1
        /\ mreq[r1].topic_id = mreq[r2].topic_id
        /\ mreq[r1].insert = "ok" /\ mreq[r2].insert = "ok"
        /\ Message(r1).id < Message(r2).id
        /\ \E i \in TasksOf(r1) : tasks[i].state = "Rejected"
        /\ mreq[r2].status = 201
        /\ TasksOf(r2) # {}

\* C19: every row of the message table carries the id of a row of the topic
\* table, and that row is the very topic the request that stored the message
\* had resolved (topics are neither deleted nor changed).
C19_MessagesReferenceTopics ==
    \A i \in DOMAIN messages :
        /\ messages[i].topic_id \in DOMAIN topics
        /\ topics[messages[i].topic_id].id = messages[i].topic_id
        /\ \E r \in IngestReqs :
              /\ mreq[r].message = Some(messages[i])
              /\ mreq[r].lookup = "found"
              /\ Topic(r) = topics[messages[i].topic_id]

\* Two topics have been created and a message is stored for the second.
C19_Witness ==
    /\ Len(topics) = 2
    /\ \E i \in DOMAIN messages : messages[i].topic_id = 2

\* The HTTP status codes a provider can answer with.
StatusCodes == 100..599

\* check over every status code: true exactly for 200..299, false for every
\* other one, and neither of them when the call itself fails.
CheckOverStatusCodes ==
    \A s \in StatusCodes :
        /\ check([err |-> FALSE, status |-> s]) \in {"true", "false"}
        /\ check([err |-> FALSE, status |-> s]) = "true" <=> (s >= 200 /\ s <= 299)
        /\ check([err |-> TRUE, status |-> s]) \notin {"true", "false"}

\* C20: over every status code, check is true exactly for 200..299 and false
\* for every other one, and it is the failure, neither true nor false, when
\* the call itself fails. Each served topic-creation request with a config
\* holds the result that belongs to the answer it got; false and the failure
\* are different results that both end the request with 400, and true never
\* ends with 400.
C20_CheckHasThreeResults ==
    /\ CheckOverStatusCodes
    /\ \A c \in WithConfig :
          LET http == Unwrap(treq[c].http)
          IN  /\ http.err => treq[c].check = "err"
              /\ (~http.err /\ http.status \in 200..299) => treq[c].check = "true"
              /\ (~http.err /\ http.status \notin 200..299) => treq[c].check = "false"
              /\ treq[c].check \in {"false", "err"} <=> treq[c].status = 400
              /\ treq[c].check = "true" => treq[c].status \in {200, 500}

\* One creation request got a non-2xx answer and another a network error:
\* the results differ, the responses are both 400.
C20_Witness ==
    \E c1, c2 \in TopicReqs :
        /\ treq[c1].check = "false"
        /\ treq[c2].check = "err"
        /\ treq[c1].status = 400
        /\ treq[c2].status = 400
        /\ \E c3 \in TopicReqs : treq[c3].check = "true"

====
